---------------------------- MODULE Spec2Model ----------------------------
(***************************************************************************)
(* A model of spyne's request pipeline (spyne/server/_base.py, ServerBase)  *)
(* and of its file values and binary streaming readers                      *)
(* (spyne/model/binary.py, spyne/protocol/_model.py).                       *)
(*                                                                          *)
(* Spec      the request pipeline: generate_contexts, get_in_object,        *)
(*           get_out_object and the get_out_string coroutine, called in     *)
(*           the order of the transport contract.                           *)
(* SpecFile  File.Value, rollover and the streaming readers.                *)
(* SpecCodec the string codecs of spyne/protocol/_model.py: the binary      *)
(*           decoders, the number parsers and the duration codec, each      *)
(*           applied to inputs drawn from bounded sets.                     *)
(***************************************************************************)
EXTENDS Integers, Sequences, FiniteSets, TLC

VARIABLES
    ctx,        \* the Context the transport is processing
    retval,     \* what generate_contexts returned: a sequence of contexts
    cur,        \* the position in retval of the context being processed
    pc,         \* where the transport is in its call sequence
    raised,     \* the exception that escaped the last call, or None
    prod,       \* the streaming producer serialize() returned
    log,        \* fire_event / create_out_string calls of the running get_out_string
    hist,       \* of the context being processed: dispatch count, values supplied, ...
    last,       \* the operation that ran last
    value,      \* a File.Value
    fs,         \* the filesystem: path -> content
    handles,    \* open-file table: handle id -> [path, pos, open]
    reader,     \* the streaming reader (generator) the consumer holds
    out,        \* the chunks the consumer has received from the reader
    fpc,        \* where the file scenario is
    fhist,      \* history of the file scenario
    call,       \* the codec function called last, with its arguments
    result      \* what that call returned or raised

pvars == <<ctx, retval, cur, pc, raised, prod, log, hist, last>>
fvars == <<value, fs, handles, reader, out, fpc, fhist>>
cvars == <<call, result>>
vars == <<ctx, retval, cur, pc, raised, prod, log, hist, last,
          value, fs, handles, reader, out, fpc, fhist, call, result>>

None == "None"

-----------------------------------------------------------------------------
(* Bounds *)

\* contexts generate_method_contexts may return (primary + auxiliary)
MaxCtx == 2
\* values the transport may send into a streaming get_out_string
MaxSend == 2
\* chunks in the data of a File.Value
MaxChunks == 2

\* characters in the input of a binary decoder
MaxBinLen == 3
\* characters in the input of a number parser
MaxNumLen == 4
\* the max_str_len the number types of the scenario declare
DeclaredMaxStrLen == 3
\* days in the magnitude of a time span
MaxDays == 2
\* characters in the input of duration_from_string
MaxDurLen == 3

-----------------------------------------------------------------------------
(* The request pipeline *)

Faults == {"F1", "F2"}
SendValues == {"a", "b"}

\* A fresh Context as the transport supplies it: in_string populated, nothing
\* derived yet.  service_class is resolved by collaborators and may be None.
NewContext(sc) ==
    [in_document |-> None, in_body_doc |-> None, in_object |-> None,
     in_error |-> None, out_error |-> None, out_object |-> None,
     out_document |-> None, out_string |-> None, service_class |-> sc]

NoProducer == [state |-> "none", recv |-> <<>>, breaks |-> 0]
NewHist == [dispatched |-> 0, goo |-> None, supplied |-> <<>>, gos |-> "not_run",
            genfail |-> None, infail |-> None]

\* The effects of the sub-stages of generate_contexts that completed before
\* stage number `upto` (1 create_in_document, 2 decompose_incoming_envelope,
\* 3 generate_method_contexts).
StagesDone(c, upto) ==
    [c EXCEPT !.in_document = IF upto > 1 THEN "doc" ELSE @,
              !.in_body_doc = IF upto > 2 THEN "body" ELSE @]

\* A handler that forgets the output side of the fault.
GenCatch_NoOutError(c, e) ==
    [c EXCEPT !.in_object = None, !.in_error = e]

\* except Fault as e: of generate_contexts
GenCatch(c, e) ==
    [c EXCEPT !.in_object = None, !.in_error = e, !.out_error = e]

\* generate_contexts(ctx).  failAt = 0: all three sub-stages succeed and
\* generate_method_contexts returns k contexts.  failAt in 1..3: that
\* sub-stage raises `exc`, a Fault or some other exception ("Error").
generate_contexts(failAt, exc, k) ==
    /\ pc = "generate"
    /\ IF failAt = 0
       THEN /\ ctx' = StagesDone(ctx, 4)
            /\ retval' = [i \in 1..k |-> StagesDone(ctx, 4)]
            /\ raised' = None
            /\ pc' = "in_object"
            /\ hist' = hist
       ELSE IF exc \in Faults
       THEN /\ ctx' = GenCatch(StagesDone(ctx, failAt), exc)
            /\ retval' = <<GenCatch(StagesDone(ctx, failAt), exc)>>
            /\ raised' = None
            /\ pc' = "in_object"
            /\ hist' = [hist EXCEPT !.genfail = exc]
       ELSE \* not a Fault: no handler, the exception leaves generate_contexts
            /\ ctx' = StagesDone(ctx, failAt)
            /\ retval' = <<>>
            /\ raised' = exc
            /\ pc' = "crashed"
            /\ hist' = [hist EXCEPT !.genfail = exc]
    /\ cur' = 1
    /\ last' = "generate_contexts"
    /\ UNCHANGED <<prod, log>>

\* except Fault as e: of get_in_object
InCatch(c, e) ==
    [c EXCEPT !.in_object = None, !.in_error = e, !.out_error = e]

\* get_in_object(ctx): in_protocol.deserialize either sets in_object, raises a
\* Fault, or raises something else.
get_in_object(res) ==
    /\ pc = "in_object"
    /\ IF res = "ok"
       THEN /\ ctx' = [ctx EXCEPT !.in_object = "obj"]
            /\ raised' = None
            /\ pc' = "out_object"
            /\ hist' = hist
       ELSE IF res \in Faults
       THEN /\ ctx' = InCatch(ctx, res)
            /\ raised' = None
            /\ pc' = "out_object"
            /\ hist' = [hist EXCEPT !.infail = res]
       ELSE /\ ctx' = ctx
            /\ raised' = res
            /\ pc' = "crashed"
            /\ hist' = [hist EXCEPT !.infail = res]
    /\ last' = "get_in_object"
    /\ UNCHANGED <<retval, cur, prod, log>>

\* app.process_request(ctx): the dispatch.  It sets out_object (possibly to a
\* void result), records a fault raised by the method in out_error, or the
\* method overrides out_document / out_string itself.
process_request(c, res) ==
    CASE res = "value"    -> [c EXCEPT !.out_object = "result"]
      [] res = "void"     -> [c EXCEPT !.out_object = "void"]
      [] res = "document" -> [c EXCEPT !.out_object = "result", !.out_document = "udoc"]
      [] res = "string"   -> [c EXCEPT !.out_object = "result", !.out_string = "ustr"]
      [] OTHER            -> [c EXCEPT !.out_error = res]

DispatchResults == {"value", "void", "document", "string"} \cup Faults

\* A get_out_object that dispatches whatever the input stage left.
MayDispatch_Always(c) == TRUE

\* if ctx.in_error is None: of get_out_object
MayDispatch(c) == c.in_error = None

\* get_out_object(ctx)
get_out_object(res) ==
    /\ pc = "out_object"
    /\ IF MayDispatch(ctx)
       THEN /\ ctx' = process_request(ctx, res)
            /\ raised' = None
            /\ hist' = [hist EXCEPT !.dispatched = @ + 1, !.goo = "returned"]
       ELSE /\ ctx' = ctx
            /\ raised' = ctx.in_error
            /\ hist' = [hist EXCEPT !.goo = ctx.in_error]
    /\ pc' = "out_string"
    /\ last' = "get_out_object"
    /\ UNCHANGED <<retval, cur, prod, log>>


\* The lifecycle event of the document phase: selected by out_error.
DocumentEvent(c) ==
    IF c.out_error = None THEN "method_return_document"
                          ELSE "method_exception_document"

\* A string phase with its two events swapped.
StringEvent_Swapped(c) ==
    IF c.out_error = None THEN "method_exception_string"
                          ELSE "method_return_string"

\* The lifecycle event of the string phase: selected by out_error.
StringEvent(c) ==
    IF c.out_error = None THEN "method_return_string"
                          ELSE "method_exception_string"

\* if ctx.service_class != None: ... fire_event(name, ctx).  The log keeps the
\* event's name and the value of out_error when it fired.
FireEvent(c, name) ==
    IF c.service_class # None THEN <<[ev |-> name, err |-> c.out_error]>> ELSE <<>>

\* out_protocol.create_out_string(ctx): builds out_string from the document,
\* or leaves it unset (cos = None).
create_out_string(c, cos) ==
    IF cos = None THEN c ELSE [c EXCEPT !.out_string = cos]

OutStrings == {None, "bytes"}
EmptyOutString == "['']"

\* if ctx.out_string is None: ctx.out_string = [""]
DefaultOutString(c) ==
    IF c.out_string = None THEN [c EXCEPT !.out_string = EmptyOutString] ELSE c

\* The part of get_out_string after the document is available: the calls made
\* in order ...
TailLog(c, cos) ==
    FireEvent(c, DocumentEvent(c))
      \o <<[ev |-> "create_out_string", err |-> c.out_error]>>
      \o FireEvent(create_out_string(c, cos), StringEvent(create_out_string(c, cos)))

\* ... and the context they leave.
TailCtx(c, cos) == DefaultOutString(create_out_string(c, cos))

\* get_out_string(ctx), from the call to its first suspension or its end: the
\* @coroutine decorator (spyne.util) advances the new generator to its first
\* yield, so the call runs the body up to `y = (yield)` or to its end.
\* ser: what out_protocol.serialize returns, a finite value or a generator.
get_out_string(ser, cos) ==
    /\ pc = "out_string"
    /\ LET c == ctx IN
       IF c.out_string # None
       THEN \* the user overrode the byte stream: left alone
            /\ ctx' = ctx
            /\ log' = <<>>
            /\ prod' = NoProducer
            /\ pc' = "written"
            /\ hist' = [hist EXCEPT !.gos = "returned"]
       ELSE IF c.out_document = None /\ ser = "generator"
       THEN \* while True: y = (yield)
            /\ ctx' = ctx
            /\ log' = <<>>
            /\ prod' = [state |-> "suspended", recv |-> <<>>, breaks |-> 0]
            /\ pc' = "streaming"
            /\ hist' = [hist EXCEPT !.gos = "suspended"]
       ELSE LET d == IF c.out_document = None
                     THEN [c EXCEPT !.out_document = "doc"] ELSE c IN
            /\ ctx' = TailCtx(d, cos)
            /\ log' = TailLog(d, cos)
            /\ prod' = NoProducer
            /\ pc' = "written"
            /\ hist' = [hist EXCEPT !.gos = "returned"]
    /\ raised' = None
    /\ last' = "get_out_string"
    /\ UNCHANGED <<retval, cur>>

\* What the caller of get_out_string sees when a StopIteration raised by
\* ret.send(y) leaves the generator body: the interpreter either ends the
\* generator with it, or (PEP 479) turns it into a RuntimeError.
EscapedStop == {"StopIteration", "RuntimeError"}

\* The transport resumes get_out_string with a value: y = (yield); ret.send(y).
\* The producer takes the value and either yields again or ends normally.
\* Only Break is handled around the loop, so the producer's StopIteration
\* leaves get_out_string at ret.send(y).
send(y, ans, esc) ==
    /\ pc = "streaming"
    /\ Len(hist.supplied) < MaxSend
    /\ IF ans = "yield"
       THEN /\ prod' = [prod EXCEPT !.recv = Append(@, y)]
            /\ ctx' = ctx
            /\ raised' = None
            /\ pc' = "streaming"
            /\ hist' = [hist EXCEPT !.supplied = Append(@, y)]
       ELSE /\ prod' = [prod EXCEPT !.recv = Append(@, y), !.state = "finished"]
            /\ ctx' = [ctx EXCEPT !.out_document = "doc"]
            /\ raised' = esc
            /\ pc' = "written"
            /\ hist' = [hist EXCEPT !.supplied = Append(@, y),
                                    !.gos = "completed"]
    /\ last' = "send"
    /\ UNCHANGED <<retval, cur, log>>

\* A handler that does not absorb the producer's StopIteration.
BreakAbsorbed_OnlyYield(ans) == ans = "yield"

\* except StopIteration: pass, around ret.throw(Break()): the answers of the
\* producer to the injected Break that let get_out_string go on.  "stop": the
\* producer ends normally; "yield": it swallows the Break and yields again, so
\* ret.throw returns; "raise": the Break (or another error) leaves the producer.
BreakAbsorbed(ans) == ans \in {"stop", "yield"}

\* The transport cancels the stream: Break is raised at the yield of
\* get_out_string, which throws Break() into the producer.
throw(ans, cos) ==
    /\ pc = "streaming"
    /\ LET c == ctx
           st == CASE ans = "stop" -> "cancelled"
                   [] ans = "yield" -> "suspended"
                   [] OTHER -> "raised" IN
       /\ prod' = [prod EXCEPT !.breaks = @ + 1, !.state = st]
       /\ IF BreakAbsorbed(ans)
          THEN /\ ctx' = TailCtx(c, cos)
               /\ log' = TailLog(c, cos)
               /\ raised' = None
               /\ hist' = [hist EXCEPT !.gos = "cancelled"]
          ELSE /\ ctx' = ctx
               /\ log' = log
               /\ raised' = "Break"
               /\ hist' = [hist EXCEPT !.gos = "cancel_failed"]
    /\ pc' = "written"
    /\ last' = "throw"
    /\ UNCHANGED <<retval, cur>>

\* The transport has read out_string and written the response; it goes on to
\* the next context generate_contexts returned, if any.
next_context ==
    /\ pc = "written"
    /\ IF cur < Len(retval)
       THEN /\ cur' = cur + 1
            /\ ctx' = retval[cur + 1]
            /\ pc' = "in_object"
            /\ hist' = NewHist
            /\ prod' = NoProducer
            /\ log' = <<>>
            /\ raised' = None
       ELSE /\ pc' = "end"
            /\ UNCHANGED <<cur, ctx, hist, prod, log, raised>>
    /\ last' = "next_context"
    /\ UNCHANGED retval

-----------------------------------------------------------------------------
(* Paths, files and base64 *)

\* An attribute that is None is the empty tuple, one that is set holds its value.
Absent == <<>>
Some(x) == <<x>>
\* File.Value.handle: 0 is None, otherwise an entry of the open-file table
NoHandle == 0

\* os.path.isabs
isabs(p) == Len(p) > 0 /\ p[1] = "/"

\* os.path.basename: what follows the last separator
basename(p) ==
    LET seps == {i \in 1..Len(p) : p[i] = "/"}
        lastSep == IF seps = {} THEN 0 ELSE CHOOSE i \in seps : \A j \in seps : j <= i
    IN SubSeq(p, lastSep + 1, Len(p))

\* The directory tempfile.mkstemp creates its files in, the names it may draw,
\* and the absolute path names it can return.
TempDir == <<"/", "t">>
TempNames == {<<"t", "m", "p", "1">>, <<"t", "m", "p", "2">>}
TempPaths == {TempDir \o <<"/">> \o n : n \in TempNames}

\* A file of the user's, present before the value is built.
UserPath == <<"/", "u", "/", "f">>
UserContent == <<10, 20, 30, 40>>

\* f.read(0x4000) of File.to_base64
Base64ReadSize == 16384
\* f.read(65536) of _file_to_iter
IterReadSize == 65536

B64Alphabet ==
    <<"A", "B", "C", "D", "E", "F", "G", "H", "I", "J", "K", "L", "M",
      "N", "O", "P", "Q", "R", "S", "T", "U", "V", "W", "X", "Y", "Z",
      "a", "b", "c", "d", "e", "f", "g", "h", "i", "j", "k", "l", "m",
      "n", "o", "p", "q", "r", "s", "t", "u", "v", "w", "x", "y", "z",
      "0", "1", "2", "3", "4", "5", "6", "7", "8", "9", "+", "/">>
B64Pad == "="

B64Value ==
    [c \in {B64Alphabet[i] : i \in 1..64} |->
        CHOOSE v \in 0..63 : B64Alphabet[v + 1] = c]

\* base64.b64encode: each group of three bytes becomes four characters; a
\* last group of one or two bytes is padded with "=".
b64encode(d) ==
    [j \in 1..(4 * ((Len(d) + 2) \div 3)) |->
        LET g == (j - 1) \div 4
            k == (j - 1) % 4
            b1 == d[3 * g + 1]
            b2 == IF 3 * g + 2 <= Len(d) THEN d[3 * g + 2] ELSE 0
            b3 == IF 3 * g + 3 <= Len(d) THEN d[3 * g + 3] ELSE 0
        IN CASE k = 0 -> B64Alphabet[(b1 \div 4) + 1]
             [] k = 1 -> B64Alphabet[(b1 % 4) * 16 + (b2 \div 16) + 1]
             [] k = 2 -> IF 3 * g + 2 > Len(d) THEN B64Pad
                         ELSE B64Alphabet[(b2 % 16) * 4 + (b3 \div 64) + 1]
             [] OTHER -> IF 3 * g + 3 > Len(d) THEN B64Pad
                         ELSE B64Alphabet[(b3 % 64) + 1]]

IsB64Data(ch) == ch # B64Pad

\* The bytes that a run of base64 data characters holds: every 8 bits shifted
\* in give one byte.
B64Bytes(cs) ==
    [k \in 1..((6 * Len(cs)) \div 8) |->
        LET c == ((8 * (k - 1)) \div 6) + 1
            off == (8 * (k - 1)) % 6
            v1 == B64Value[cs[c]]
            v2 == B64Value[cs[c + 1]]
        IN CASE off = 0 -> v1 * 4 + (v2 \div 16)
             [] off = 2 -> (v1 % 16) * 16 + (v2 \div 4)
             [] OTHER   -> (v1 % 4) * 64 + v2]

\* base64.b64decode (binascii.a2b_base64) of a string of alphabet and pad
\* characters.  A pad is skipped when fewer than two characters of the
\* current quad were read, or when exactly two were read and the next
\* character is not a pad; any other pad sequence means no more input.
\* Without such a pad sequence, leftover bits are an "Incorrect padding" error.
b64decode(s) ==
    LET pads == {i \in 1..Len(s) : s[i] = B64Pad}
        quad(i) == ((i - 1) - Cardinality({p \in pads : p < i})) % 4
        ends == {i \in pads :
                    \/ quad(i) = 3
                    \/ quad(i) = 2 /\ i < Len(s) /\ s[i + 1] = B64Pad}
        stop == IF ends = {} THEN Len(s) + 1
                ELSE CHOOSE i \in ends : \A j \in ends : i <= j
        cs == SelectSeq(SubSeq(s, 1, stop - 1), IsB64Data)
    IN IF ends = {} /\ (6 * Len(cs)) % 8 # 0
       THEN [ok |-> FALSE, bytes |-> <<>>]
       ELSE [ok |-> TRUE, bytes |-> B64Bytes(cs)]

RECURSIVE Flatten(_)
\* ''.join(chunks): the chunks one after the other
Flatten(chunks) ==
    IF chunks = <<>> THEN <<>> ELSE Head(chunks) \o Flatten(Tail(chunks))

-----------------------------------------------------------------------------
(* File.Value, rollover and the streaming readers *)

\* File.Value.__init__: the asserts on name and path
ValueArgsOk(name, path) ==
    /\ name # Absent => basename(name[1]) = name[1]
    /\ path # Absent => isabs(path[1])

\* File.Value.__init__
FileValue(name, path, data, handle) ==
    [name |-> name, path |-> path, type |-> "application/octet-stream",
     data |-> data, handle |-> handle]

NoReader == [kind |-> "none", state |-> "none", h |-> 0, owns |-> FALSE, pos |-> 0]
NewFHist == [last |-> None, raised |-> None, rollovers |-> 0, onlydata |-> FALSE,
             chunks |-> 0]

\* A rollover whose write loop keeps only the last chunk.
WriteAll_LastOnly(data) ==
    IF data = <<>> THEN <<>> ELSE data[Len(data)]

\* for data in self.data: f.write(data), on a file opened with 'wb'
WriteAll(data) == Flatten(data)

\* if self.name is None: self.name = os.path.basename(self.path)
RolloverName(v, path) ==
    IF v.name = Absent THEN Some(basename(path)) ELSE v.name

\* File.Value.rollover().  iter(self.data) raises TypeError when data is None.
\* With no path, tempfile.mkstemp creates a file that did not exist and returns
\* its absolute path; with a path, open(path, 'wb') truncates that file.
rollover(tmp) ==
    /\ fpc = "value"
    /\ reader.kind = "none"
    /\ IF value.data = Absent
       THEN /\ fhist' = [fhist EXCEPT !.last = "rollover", !.raised = "TypeError"]
            /\ UNCHANGED <<value, fs>>
       ELSE LET path == IF value.path = Absent THEN tmp ELSE value.path[1] IN
            /\ value.path = Absent => tmp \notin DOMAIN fs
            /\ fs' = [p \in DOMAIN fs \cup {path} |->
                         IF p = path THEN WriteAll(value.data[1]) ELSE fs[p]]
            /\ value' = [value EXCEPT !.path = Some(path),
                                      !.name = RolloverName(value, path),
                                      !.data = Absent]
            /\ fhist' = [fhist EXCEPT !.last = "rollover", !.raised = None,
                                      !.rollovers = @ + 1,
                                      !.chunks = Len(value.data[1])]
    /\ UNCHANGED <<handles, reader, out, fpc>>

\* f.read(n): the next n bytes of the file, fewer at its end
ReadChunk(hs, h, n) ==
    LET content == fs[hs[h].path]
        from == hs[h].pos
        to == IF from + n < Len(content) THEN from + n ELSE Len(content)
    IN SubSeq(content, from + 1, to)

\* file_to_string_iterable(prot, cls, value): returns iter(value.data) when
\* data is set; otherwise opens value.path, or takes value.handle rewound, and
\* returns the generator _file_to_iter(f), whose body has not run yet.
file_to_string_iterable ==
    /\ fpc = "value"
    /\ reader.kind = "none"
    /\ IF value.data # Absent
       THEN /\ reader' = [kind |-> "iter", state |-> "created", h |-> 0,
                          owns |-> FALSE, pos |-> 0]
            /\ handles' = handles
            /\ fhist' = [fhist EXCEPT !.last = "file_to_string_iterable",
                                      !.raised = None]
       ELSE IF value.handle = NoHandle
       THEN IF value.path = Absent
            THEN /\ reader' = reader
                 /\ handles' = handles
                 /\ fhist' = [fhist EXCEPT !.last = "file_to_string_iterable",
                                           !.raised = "AssertionError"]
            ELSE /\ handles' = Append(handles,
                                  [path |-> value.path[1], pos |-> 0, open |-> TRUE])
                 /\ reader' = [kind |-> "file_to_iter", state |-> "created",
                               h |-> Len(handles) + 1, owns |-> TRUE, pos |-> 0]
                 /\ fhist' = [fhist EXCEPT !.last = "file_to_string_iterable",
                                           !.raised = None]
       ELSE /\ handles' = [handles EXCEPT ![value.handle].pos = 0]
            /\ reader' = [kind |-> "file_to_iter", state |-> "created",
                          h |-> value.handle, owns |-> FALSE, pos |-> 0]
            /\ fhist' = [fhist EXCEPT !.last = "file_to_string_iterable",
                                      !.raised = None]
    /\ UNCHANGED <<value, fs, out, fpc>>

\* File.to_base64(cls, value), for a value that is not None: a generator
\* function; the call runs nothing.
to_base64 ==
    /\ fpc = "value"
    /\ reader.kind = "none"
    /\ reader' = [kind |-> "to_base64", state |-> "created", h |-> 0,
                  owns |-> FALSE, pos |-> 0]
    /\ fhist' = [fhist EXCEPT !.last = "to_base64", !.raised = None]
    /\ UNCHANGED <<value, fs, handles, out, fpc>>

\* One resumption of a file generator whose file f = hs[h] is open: read the
\* next chunk; yield it (base64-encoded by File.to_base64) when it is not
\* empty, otherwise leave the loop, f.close() and end.  A handle the generator
\* opened itself is its own.
ReadStep(hs, h, n, b64) ==
    LET data == ReadChunk(hs, h, n)
    IN IF Len(data) > 0
       THEN /\ out' = Append(out, IF b64 THEN b64encode(data) ELSE data)
            /\ handles' = [hs EXCEPT ![h].pos = @ + Len(data)]
            /\ reader' = [reader EXCEPT !.state = "suspended", !.h = h,
                                        !.owns = IF b64 THEN TRUE ELSE @]
       ELSE /\ out' = out
            /\ handles' = [hs EXCEPT ![h].open = FALSE]
            /\ reader' = [reader EXCEPT !.state = "exhausted", !.h = h,
                                        !.owns = IF b64 THEN TRUE ELSE @]

\* next() on the iterator the consumer holds.
reader_next ==
    /\ fpc = "value"
    /\ reader.state \in {"created", "suspended"}
    /\ CASE reader.kind = "iter" ->
              \* iter(value.data)
              /\ IF reader.pos < Len(value.data[1])
                 THEN /\ out' = Append(out, value.data[1][reader.pos + 1])
                      /\ reader' = [reader EXCEPT !.pos = @ + 1,
                                                  !.state = "suspended"]
                 ELSE /\ out' = out
                      /\ reader' = [reader EXCEPT !.state = "exhausted"]
              /\ handles' = handles
              /\ fhist' = [fhist EXCEPT !.last = "next", !.raised = None]
         [] reader.kind = "file_to_iter" ->
              \* _file_to_iter(f)
              /\ ReadStep(handles, reader.h, IterReadSize, FALSE)
              /\ fhist' = [fhist EXCEPT !.last = "next", !.raised = None]
         [] OTHER ->
              \* File.to_base64: the first resumption asserts value.path and
              \* opens the file
              IF reader.state = "created"
              THEN IF value.path = Absent
                   THEN /\ reader' = [reader EXCEPT !.state = "failed"]
                        /\ UNCHANGED <<out, handles>>
                        /\ fhist' = [fhist EXCEPT !.last = "next",
                                                  !.raised = "AssertionError"]
                   ELSE /\ ReadStep(Append(handles, [path |-> value.path[1],
                                                     pos |-> 0, open |-> TRUE]),
                                    Len(handles) + 1, Base64ReadSize, TRUE)
                        /\ fhist' = [fhist EXCEPT !.last = "next", !.raised = None]
              ELSE /\ ReadStep(handles, reader.h, Base64ReadSize, TRUE)
                   /\ fhist' = [fhist EXCEPT !.last = "next", !.raised = None]
    /\ UNCHANGED <<value, fs, fpc>>

\* The consumer stops reading a stream it has read some chunks of: the
\* generator is never resumed again (or is closed: GeneratorExit is raised at
\* its yield, and nothing of its body runs after that).
abandon ==
    /\ fpc = "value"
    /\ reader.state = "suspended"
    /\ reader' = [reader EXCEPT !.state = "abandoned"]
    /\ fhist' = [fhist EXCEPT !.last = "abandon", !.raised = None]
    /\ UNCHANGED <<value, fs, handles, out, fpc>>

-----------------------------------------------------------------------------
(* The string codecs *)

\* No codec function has been called.
NoCall == [fn |-> None, cls |-> None, arg |-> None, opt |-> None]
NoResult == [kind |-> None, exc |-> None, args |-> <<>>, val |-> None]

CodecIdle ==
    /\ call = NoCall
    /\ result = NoResult

\* return val
Return(val) == [kind |-> "return", exc |-> None, args |-> <<>>, val |-> val]

\* raise exc(*args)
Raise(exc, args) == [kind |-> "raise", exc |-> exc, args |-> args, val |-> None]

\* Every string of at most n characters of the set chars.
Strings(chars, n) == UNION {[1..k -> chars] : k \in 0..n}

\* The codecs are Python 2 code (the builtin `unicode` of
\* ByteArray.from_urlsafe_base64, `/` on integers in duration_to_string, the
\* TypeError handler of ByteArray.from_base64): the standard library calls
\* below behave as Python 2.7's.

(* The binary decoders *)

BINARY_ENCODING_HEX == "BINARY_ENCODING_HEX"
BINARY_ENCODING_BASE64 == "BINARY_ENCODING_BASE64"
BINARY_ENCODING_USE_DEFAULT == "BINARY_ENCODING_USE_DEFAULT"
BINARY_ENCODING_URLSAFE_BASE64 == "BINARY_ENCODING_URLSAFE_BASE64"

HexLower == <<"0", "1", "2", "3", "4", "5", "6", "7", "8", "9",
              "a", "b", "c", "d", "e", "f">>
HexUpper == <<"0", "1", "2", "3", "4", "5", "6", "7", "8", "9",
              "A", "B", "C", "D", "E", "F">>
IsHexDigit(c) == \E i \in 1..16 : HexLower[i] = c \/ HexUpper[i] = c
HexValue(c) == (CHOOSE i \in 1..16 : HexLower[i] = c \/ HexUpper[i] = c) - 1

\* binascii.unhexlify: two hexadecimal digits give one byte; a string of odd
\* length or with another character in it is a TypeError.
unhexlify(s) ==
    IF Len(s) % 2 # 0
    THEN Raise("TypeError", <<"Odd-length string">>)
    ELSE IF \E i \in 1..Len(s) : ~IsHexDigit(s[i])
    THEN Raise("TypeError", <<"Non-hexadecimal digit found">>)
    ELSE Return([k \in 1..(Len(s) \div 2) |->
                    16 * HexValue(s[2 * k - 1]) + HexValue(s[2 * k])])

IsB64Char(c) == c = B64Pad \/ \E i \in 1..64 : B64Alphabet[i] = c

\* base64.b64decode(s): binascii.a2b_base64 passes over the characters that
\* are neither of the alphabet nor the pad; its binascii.Error (incorrect
\* padding) is raised again as a TypeError.
py_b64decode(s) ==
    LET r == b64decode(SelectSeq(s, IsB64Char))
    IN IF r.ok THEN Return(r.bytes)
       ELSE Raise("TypeError", <<"Incorrect padding">>)

\* base64.urlsafe_b64decode(s): "-" stands for "+" and "_" for "/"
urlsafe_b64decode(s) ==
    py_b64decode([i \in 1..Len(s) |->
                    CASE s[i] = "-" -> "+"
                      [] s[i] = "_" -> "/"
                      [] OTHER -> s[i]])

\* ByteArray.from_base64(value), value a string
from_base64(v) ==
    LET r == py_b64decode(v)
    IN IF r.kind = "raise"
       THEN IF r.exc = "TypeError" THEN Raise("ValidationError", <<v>>) ELSE r
       ELSE Return(<<r.val>>)

\* ByteArray.from_urlsafe_base64(value), value an ASCII string
from_urlsafe_base64(v) ==
    LET r == urlsafe_b64decode(v)
    IN IF r.kind = "raise" THEN r ELSE Return(<<r.val>>)

\* ByteArray.from_hex(value), value a string
from_hex(v) ==
    LET r == unhexlify(v)
    IN IF r.kind = "raise" THEN r ELSE Return(<<r.val>>)

\* binary_decoding_handlers[encoding](value)
binary_decoding_handlers(encoding, v) ==
    CASE encoding = None -> Return(<<v>>)
      [] encoding = BINARY_ENCODING_HEX -> from_hex(v)
      [] encoding = BINARY_ENCODING_BASE64 -> from_base64(v)
      [] encoding = BINARY_ENCODING_URLSAFE_BASE64 -> from_urlsafe_base64(v)

\* The attributes of a type the codecs read.
Attributes(encoding, max_str_len) ==
    [encoding |-> encoding, max_str_len |-> max_str_len]

\* The encoding byte_array_from_string and file_from_string decode with.
Encoding(cls, suggested_encoding) ==
    IF cls.encoding = BINARY_ENCODING_USE_DEFAULT THEN suggested_encoding
    ELSE cls.encoding

byte_array_from_string(cls, v, suggested_encoding) ==
    binary_decoding_handlers(Encoding(cls, suggested_encoding), v)

file_from_string(cls, v, suggested_encoding) ==
    LET r == binary_decoding_handlers(Encoding(cls, suggested_encoding), v)
    IN IF r.kind = "raise" THEN r
       ELSE Return(FileValue(Absent, Absent, Some(r.val), NoHandle))

\* The encodings a type declares, and those a protocol suggests.
DeclaredEncodings ==
    {None, BINARY_ENCODING_HEX, BINARY_ENCODING_BASE64,
     BINARY_ENCODING_URLSAFE_BASE64, BINARY_ENCODING_USE_DEFAULT}
SuggestedEncodings ==
    {None, BINARY_ENCODING_HEX, BINARY_ENCODING_BASE64,
     BINARY_ENCODING_URLSAFE_BASE64}

\* Encoded input: hexadecimal digits, base64 characters, the pad, a character
\* of the URL-safe alphabet only.
BinaryChars == {"4", "f", "Q", "=", "-"}
BinaryInputs == Strings(BinaryChars, MaxBinLen)

\* The calls of the binary decoders: call.opt is the suggested encoding.
BinaryCalls ==
    {[fn |-> f, cls |-> Attributes(enc, Absent), arg |-> v, opt |-> sug] :
        f \in {"byte_array_from_string", "file_from_string"},
        enc \in DeclaredEncodings, sug \in SuggestedEncodings, v \in BinaryInputs}

\* The call drawn is made: it returns or raises.
Called(fn) ==
    /\ call.fn = fn
    /\ result = NoResult
    /\ call' = call

ByteArrayFromString ==
    /\ Called("byte_array_from_string")
    /\ result' = byte_array_from_string(call.cls, call.arg, call.opt)

FileFromString ==
    /\ Called("file_from_string")
    /\ result' = file_from_string(call.cls, call.arg, call.opt)

(* The number parsers *)

Digits == <<"0", "1", "2", "3", "4", "5", "6", "7", "8", "9">>
IsDigit(c) == \E i \in 1..10 : Digits[i] = c
DigitValue(c) == (CHOOSE i \in 1..10 : Digits[i] = c) - 1

RECURSIVE DigitsValue(_)
\* The number a string of decimal digits writes.
DigitsValue(s) ==
    IF s = <<>> THEN 0
    ELSE 10 * DigitsValue(SubSeq(s, 1, Len(s) - 1)) + DigitValue(s[Len(s)])

\* A numeric literal's sign and what follows it.
IsSigned(s) == Len(s) > 0 /\ s[1] \in {"-", "+"}
IsNegative(s) == Len(s) > 0 /\ s[1] = "-"
Unsigned(s) == IF IsSigned(s) THEN Tail(s) ELSE s

\* int(string), of a string without whitespace: an optional sign and one
\* decimal digit at least, anything else is a ValueError.
int(s) ==
    LET body == Unsigned(s)
    IN IF Len(body) > 0 /\ \A i \in 1..Len(body) : IsDigit(body[i])
       THEN Return(IF IsNegative(s) THEN 0 - DigitsValue(body) ELSE DigitsValue(body))
       ELSE Raise("ValueError", <<"invalid literal for int() with base 10">>)

\* A literal of digits with at most one decimal point in it, and one digit at
\* least: what decimal.Decimal and float accept of a string that has no
\* whitespace, exponent, or letter in it.
IsPointLiteral(body) ==
    /\ \A i \in 1..Len(body) : IsDigit(body[i]) \/ body[i] = "."
    /\ Cardinality({i \in 1..Len(body) : body[i] = "."}) <= 1
    /\ \E i \in 1..Len(body) : IsDigit(body[i])

\* The digits of such a literal, and the number of them after the point.
Coefficient(body) == DigitsValue(SelectSeq(body, IsDigit))
Scale(body) ==
    IF \E i \in 1..Len(body) : body[i] = "."
    THEN Len(body) - (CHOOSE i \in 1..Len(body) : body[i] = ".")
    ELSE 0

\* decimal.Decimal(string): sign, coefficient and exponent as written
Decimal(s) ==
    LET body == Unsigned(s)
    IN IF IsPointLiteral(body)
       THEN Return([sign |-> IF IsNegative(s) THEN 1 ELSE 0,
                    coef |-> Coefficient(body), exp |-> 0 - Scale(body)])
       ELSE Raise("InvalidOperation", <<"Invalid literal for Decimal">>)

RECURSIVE Normalized(_)
\* The number sign * coef * 10^exp with no trailing zero in its fraction.
Normalized(d) ==
    IF d.exp < 0 /\ d.coef % 10 = 0
    THEN Normalized([d EXCEPT !.coef = @ \div 10, !.exp = @ + 1])
    ELSE d

\* float(string): the number written (short literals: no two of them round
\* to the same float)
float(s) ==
    LET body == Unsigned(s)
    IN IF IsPointLiteral(body)
       THEN Return(Normalized([sign |-> IF IsNegative(s) THEN 1 ELSE 0,
                               coef |-> Coefficient(body), exp |-> 0 - Scale(body)]))
       ELSE Raise("ValueError", <<"could not convert string to float">>)

\* len(string) > cls.Attributes.max_str_len, for a declared max_str_len
TooLong(cls, string) ==
    cls.max_str_len # Absent /\ Len(string) > cls.max_str_len[1]

decimal_from_string(cls, string) ==
    IF TooLong(cls, string)
    THEN Raise("ValidationError", <<string, "Decimal %r longer than %d characters">>)
    ELSE LET r == Decimal(string)
         IN IF r.kind = "raise" /\ r.exc = "InvalidOperation"
            THEN Raise("ValidationError", <<string, "%r: %r">>)
            ELSE r

double_from_string(cls, string) ==
    LET r == float(string)
    IN IF r.kind = "raise" /\ r.exc \in {"TypeError", "ValueError"}
       THEN Raise("ValidationError", <<string, "%r: %r">>)
       ELSE r

integer_from_string(cls, string) ==
    IF TooLong(cls, string)
    THEN Raise("ValidationError", <<string, "Integer %r longer than %d characters">>)
    ELSE LET r == int(string)
         IN IF r.kind = "raise" /\ r.exc = "ValueError"
            THEN Raise("ValidationError", <<string, "Could not cast %r to integer">>)
            ELSE r

\* Numeric input: digits, a sign, a point, a letter.
NumberChars == {"1", "5", "-", ".", "x"}
NumberInputs == Strings(NumberChars, MaxNumLen) \cup {<<"1", "2", "3", "4", "5">>}

\* The max_str_len a type declares.
MaxStrLens == {Absent, Some(DeclaredMaxStrLen)}

NumberCalls ==
    {[fn |-> f, cls |-> Attributes(None, m), arg |-> v, opt |-> None] :
        f \in {"integer_from_string", "decimal_from_string", "double_from_string"},
        m \in MaxStrLens, v \in NumberInputs}

IntegerFromString ==
    /\ Called("integer_from_string")
    /\ result' = integer_from_string(call.cls, call.arg)

DecimalFromString ==
    /\ Called("decimal_from_string")
    /\ result' = decimal_from_string(call.cls, call.arg)

DoubleFromString ==
    /\ Called("double_from_string")
    /\ result' = double_from_string(call.cls, call.arg)

(* The duration codec *)

\* datetime.timedelta(days, seconds, microseconds) of non-negative arguments,
\* normalized as timedelta keeps it: 0 <= seconds < 86400 and
\* 0 <= microseconds < 1000000.
timedelta(days, seconds, microseconds) ==
    LET secs == seconds + (microseconds \div 1000000)
    IN [days |-> days + (secs \div 86400),
        seconds |-> secs % 86400,
        microseconds |-> microseconds % 1000000]

\* -value (timedelta.__neg__), and delta * -1: days carries the sign.
Negated(v) ==
    LET borrowS == IF v.microseconds > 0 THEN 1 ELSE 0
        secs == v.seconds + borrowS
        borrowD == IF secs > 0 THEN 1 ELSE 0
    IN [days |-> 0 - v.days - borrowD,
        seconds |-> IF secs > 0 THEN 86400 - secs ELSE 0,
        microseconds |-> IF v.microseconds > 0 THEN 1000000 - v.microseconds ELSE 0]

RECURSIVE IntToString(_)
\* "%i" % n, for n >= 0
IntToString(n) ==
    IF n < 10 THEN <<Digits[n + 1]>>
    ELSE IntToString(n \div 10) \o <<Digits[(n % 10) + 1]>>

\* A duration_to_string that never takes the whole-day return.
WholeDays_Never(v) == FALSE

\* tot_sec != 0 and tot_sec % 86400 == 0 and useconds == 0, of a value that
\* is not negative (tot_sec is its total of seconds, as a float).
WholeDays(v) ==
    /\ v # timedelta(0, 0, 0)
    /\ v.seconds = 0
    /\ v.microseconds = 0

\* duration_to_string(cls, value): the pieces of retval, joined.
duration_to_string(value0) ==
    LET negative == value0.days < 0
        v == IF negative THEN Negated(value0) ELSE value0
        seconds == v.seconds % 60
        minutes0 == v.seconds \div 60
        hours == minutes0 \div 60
        minutes == minutes0 % 60
        useconds == v.microseconds
        head == <<IF negative THEN <<"-", "P">> ELSE <<"P">>>>
                  \o (IF v.days # 0 THEN <<IntToString(v.days) \o <<"D">>>> ELSE <<>>)
        time == <<<<"T">>>>
                  \o (IF hours > 0 THEN <<IntToString(hours) \o <<"H">>>> ELSE <<>>)
                  \o (IF minutes > 0 THEN <<IntToString(minutes) \o <<"M">>>> ELSE <<>>)
                  \o (IF seconds > 0 \/ useconds > 0
                      THEN <<IntToString(seconds)>>
                             \o (IF useconds > 0
                                 THEN <<<<".">> \o IntToString(useconds)>>
                                 ELSE <<>>)
                             \o <<<<"S">>>>
                      ELSE <<>>)
        retval1 == head \o time
    IN IF WholeDays(v) THEN Flatten(head)
       ELSE IF Len(retval1) = 2 THEN Flatten(retval1 \o <<<<"0", "S">>>>)
       ELSE Flatten(retval1)

\* The number of decimal digits of s from position i on.
DigitRun(s, i) ==
    LET stops == {j \in i..Len(s) : ~IsDigit(s[j])}
    IN IF stops = {} THEN Len(s) + 1 - i
       ELSE (CHOOSE j \in stops : \A k \in stops : j <= k) - i

\* An optional component of the duration grammar at position i of s: digits
\* and the designator.  A component that is not there captures nothing and
\* leaves the position where it was.
Component(s, i, designator) ==
    LET n == DigitRun(s, i)
    IN IF n > 0 /\ i + n <= Len(s) /\ s[i + n] = designator
       THEN [text |-> Some(SubSeq(s, i, i + n - 1)), next |-> i + n + 1]
       ELSE [text |-> Absent, next |-> i]

\* The seconds component: digits, an optional point and digits, "S".
SecondsComponent(s, i) ==
    LET n == DigitRun(s, i)
        m == IF n > 0 /\ i + n <= Len(s) /\ s[i + n] = "."
             THEN DigitRun(s, i + n + 1) ELSE 0
    IN IF n > 0 /\ i + n <= Len(s) /\ s[i + n] = "S"
       THEN [text |-> Some(SubSeq(s, i, i + n - 1)), next |-> i + n + 1]
       ELSE IF m > 0 /\ i + n + 1 + m <= Len(s) /\ s[i + n + 1 + m] = "S"
       THEN [text |-> Some(SubSeq(s, i, i + n + m)), next |-> i + n + m + 2]
       ELSE [text |-> Absent, next |-> i]

\* _duration_re.match(string): the groups of the duration grammar matched at
\* the start of the string (an optional sign, "P", years, months, days, then
\* an optional "T" with hours, minutes and fractional seconds), or no match.
duration_re_match(s) ==
    LET signed == Len(s) > 0 /\ s[1] = "-"
        p == IF signed THEN 2 ELSE 1
        years == Component(s, p + 1, "Y")
        months == Component(s, years.next, "M")
        days == Component(s, months.next, "D")
        hasT == days.next <= Len(s) /\ s[days.next] = "T"
        hours == Component(s, days.next + 1, "H")
        minutes == Component(s, hours.next, "M")
        seconds == SecondsComponent(s, minutes.next)
    IN IF p <= Len(s) /\ s[p] = "P"
       THEN [matched |-> TRUE,
             sign |-> IF signed THEN "-" ELSE "",
             years |-> years.text, months |-> months.text, days |-> days.text,
             hours |-> IF hasT THEN hours.text ELSE Absent,
             minutes |-> IF hasT THEN minutes.text ELSE Absent,
             seconds |-> IF hasT THEN seconds.text ELSE Absent]
       ELSE [matched |-> FALSE, sign |-> "", years |-> Absent, months |-> Absent,
             days |-> Absent, hours |-> Absent, minutes |-> Absent,
             seconds |-> Absent]

\* int(duration[group]) after groupdict(0): 0 for a group that did not match
GroupInt(text) == IF text = Absent THEN 0 ELSE DigitsValue(text[1])

\* f, i = math.modf(float(duration['seconds'])): the whole seconds i
GroupSeconds(text) ==
    IF text = Absent THEN 0 ELSE DigitsValue(SubSeq(text[1], 1, DigitRun(text[1], 1)))

\* int(1e6 * f): the first six digits of the fraction, as microseconds.  The
\* product is a float, and int() truncates it: for some fractions (1.99999,
\* 0.125014) it falls just below the integer written and a microsecond is
\* lost; for the fractions duration_to_string writes of SpanMicroseconds it is
\* the integer written.
GroupMicroseconds(text) ==
    LET t == IF text = Absent THEN <<>> ELSE text[1]
        frac == SubSeq(t, DigitRun(t, 1) + 2, Len(t))
        six == [k \in 1..6 |-> IF k <= Len(frac) THEN frac[k] ELSE "0"]
    IN DigitsValue(six)

\* duration_from_string(cls, string).  match() returns None for a string the
\* pattern does not match, and None has no groupdict; groupdict(0) never
\* returns None, so the ValidationError of the next statement is never raised.
duration_from_string(string) ==
    LET duration == duration_re_match(string)
        days == GroupInt(duration.days) + GroupInt(duration.months) * 30
                  + GroupInt(duration.years) * 365
        delta == timedelta(days,
                           GroupInt(duration.hours) * 3600
                             + GroupInt(duration.minutes) * 60
                             + GroupSeconds(duration.seconds),
                           GroupMicroseconds(duration.seconds))
    IN IF ~duration.matched
       THEN Raise("AttributeError",
                  <<"'NoneType' object has no attribute 'groupdict'">>)
       ELSE Return(IF duration.sign = "-" THEN Negated(delta) ELSE delta)

\* Time spans: a magnitude of days, seconds and microseconds, and its negative.
SpanSeconds == {0, 1, 59, 60, 3600, 5400, 86399}
\* (microseconds whose decimal fraction, as duration_to_string writes it, is
\* parsed back without a float rounding below the digits written)
SpanMicroseconds == {0, 1, 50000, 62500, 100000, 999999}
Magnitudes ==
    {timedelta(d, sec, us) : d \in 0..MaxDays, sec \in SpanSeconds,
                            us \in SpanMicroseconds}
TimeSpans == Magnitudes \cup {Negated(m) : m \in Magnitudes}

\* Duration input: the characters of the grammar, and one that is not.
DurationChars == {"-", "P", "T", "1", "D", "S", "x"}
DurationInputs == Strings(DurationChars, MaxDurLen)

\* The calls of the duration codec: call.opt is the time span the string
\* to decode was encoded from, when it was.
DurationCalls ==
    {[fn |-> "duration_to_string", cls |-> Attributes(None, Absent),
      arg |-> v, opt |-> Absent] : v \in TimeSpans}
    \cup {[fn |-> "duration_from_string", cls |-> Attributes(None, Absent),
           arg |-> v, opt |-> Absent] : v \in DurationInputs}

DurationToString ==
    /\ Called("duration_to_string")
    /\ result' = Return(duration_to_string(call.arg))

DurationFromString ==
    /\ Called("duration_from_string")
    /\ result' = duration_from_string(call.arg)

\* The string duration_to_string returned for the time span call.arg is
\* decoded with duration_from_string.
DurationBack ==
    /\ call.fn = "duration_to_string"
    /\ result.kind = "return"
    /\ call' = [fn |-> "duration_from_string", cls |-> Attributes(None, Absent),
                arg |-> result.val, opt |-> Some(call.arg)]
    /\ result' = duration_from_string(result.val)

-----------------------------------------------------------------------------
(* The file scenario's specification *)

\* The chunks small data is made of: empty, and of 1, 2 and 3 bytes.
Chunks == {<<>>, <<0>>, <<77, 255>>, <<255, 0, 77>>}
SmallData == UNION {[1..n -> Chunks] : n \in 0..MaxChunks}

\* A file one byte longer than one read of File.to_base64, in two chunks.
BigData == <<[i \in 1..Base64ReadSize |-> (7 * i) % 256], <<42>>>>

DataChoices == SmallData \cup {BigData}

PipelineIdle ==
    /\ ctx = NewContext(None)
    /\ retval = <<>>
    /\ cur = 0
    /\ pc = "idle"
    /\ raised = None
    /\ prod = NoProducer
    /\ log = <<>>
    /\ hist = NewHist
    /\ last = None

FileInit ==
    /\ \E name \in {Absent, Some(<<"n">>)}, path \in {Absent, Some(UserPath)},
          data \in {Absent} \cup {Some(d) : d \in DataChoices},
          handle \in {NoHandle, 1},
          others \in {{}, {TempDir \o <<"/", "t", "m", "p", "1">>}} :
         /\ ValueArgsOk(name, path)
         /\ value = FileValue(name, path, data, handle)
         /\ handles = IF handle = NoHandle THEN <<>>
                      ELSE <<[path |-> UserPath, pos |-> Len(UserContent), open |-> TRUE]>>
         /\ fs = [p \in {UserPath} \cup others |->
                    IF p = UserPath THEN UserContent ELSE <<1>>]
         /\ fhist = [NewFHist EXCEPT
                       !.onlydata = (name = Absent /\ path = Absent /\ data # Absent
                                       /\ handle = NoHandle)]
    /\ reader = NoReader
    /\ out = <<>>
    /\ fpc = "value"

InitFile == PipelineIdle /\ FileInit /\ CodecIdle

Rollover == \E tmp \in TempPaths : rollover(tmp)

FileToStringIterable == file_to_string_iterable

ToBase64 == to_base64

ReaderNext == reader_next

Abandon == abandon

NextFile ==
    \/ Rollover /\ UNCHANGED <<pvars, cvars>>
    \/ FileToStringIterable /\ UNCHANGED <<pvars, cvars>>
    \/ ToBase64 /\ UNCHANGED <<pvars, cvars>>
    \/ ReaderNext /\ UNCHANGED <<pvars, cvars>>
    \/ Abandon /\ UNCHANGED <<pvars, cvars>>

SpecFile == InitFile /\ [][NextFile]_vars

-----------------------------------------------------------------------------
(* The pipeline's specification *)

PipelineInit ==
    /\ \E sc \in {None, "service"} : ctx = NewContext(sc)
    /\ retval = <<>>
    /\ cur = 1
    /\ pc = "generate"
    /\ raised = None
    /\ prod = NoProducer
    /\ log = <<>>
    /\ hist = NewHist
    /\ last = None

FileIdle ==
    /\ value = FileValue(Absent, Absent, Absent, NoHandle)
    /\ fs = <<>>
    /\ handles = <<>>
    /\ reader = NoReader
    /\ out = <<>>
    /\ fpc = "idle"
    /\ fhist = NewFHist

Init == PipelineInit /\ FileIdle /\ CodecIdle

GenerateContexts ==
    \E failAt \in 0..3, exc \in Faults \cup {"Error"}, k \in 1..MaxCtx :
        generate_contexts(failAt, exc, k)

GetInObject == \E res \in {"ok", "Error"} \cup Faults : get_in_object(res)

GetOutObject == \E res \in DispatchResults : get_out_object(res)

GetOutString ==
    \E ser \in {"finite", "generator"}, cos \in OutStrings : get_out_string(ser, cos)

Send ==
    \E y \in SendValues, ans \in {"yield", "stop"}, esc \in EscapedStop :
        send(y, ans, esc)

Throw == \E ans \in {"stop", "yield", "raise"}, cos \in OutStrings : throw(ans, cos)

NextContext == next_context

Next ==
    \/ GenerateContexts /\ UNCHANGED <<fvars, cvars>>
    \/ GetInObject /\ UNCHANGED <<fvars, cvars>>
    \/ GetOutObject /\ UNCHANGED <<fvars, cvars>>
    \/ GetOutString /\ UNCHANGED <<fvars, cvars>>
    \/ Send /\ UNCHANGED <<fvars, cvars>>
    \/ Throw /\ UNCHANGED <<fvars, cvars>>
    \/ NextContext /\ UNCHANGED <<fvars, cvars>>

Spec == Init /\ [][Next]_vars

-----------------------------------------------------------------------------
(* The codecs' specification *)

\* A codec function is about to be called with arguments of the bounded sets.
CodecInit ==
    /\ call \in BinaryCalls \cup NumberCalls \cup DurationCalls
    /\ result = NoResult

InitCodec == PipelineIdle /\ FileIdle /\ CodecInit

NextCodec ==
    \/ ByteArrayFromString /\ UNCHANGED <<pvars, fvars>>
    \/ FileFromString /\ UNCHANGED <<pvars, fvars>>
    \/ IntegerFromString /\ UNCHANGED <<pvars, fvars>>
    \/ DecimalFromString /\ UNCHANGED <<pvars, fvars>>
    \/ DoubleFromString /\ UNCHANGED <<pvars, fvars>>
    \/ DurationToString /\ UNCHANGED <<pvars, fvars>>
    \/ DurationFromString /\ UNCHANGED <<pvars, fvars>>
    \/ DurationBack /\ UNCHANGED <<pvars, fvars>>

SpecCodec == InitCodec /\ [][NextCodec]_vars

-----------------------------------------------------------------------------
(* The pipeline's properties *)

DocumentEvents == {"method_return_document", "method_exception_document"}
StringEvents == {"method_return_string", "method_exception_string"}
LogNames == [i \in 1..Len(log) |-> log[i].ev]

\* The calls of the tail of get_out_string with both events fired: the
\* document-level event, create_out_string, the string-level event.
FullTail ==
    /\ Len(log) = 3
    /\ LogNames[1] \in DocumentEvents
    /\ LogNames[2] = "create_out_string"
    /\ LogNames[3] \in StringEvents

\* C1: when a sub-stage of generate_contexts raises a Fault, generate_contexts
\* raises nothing and returns exactly one context, the one it was given, with
\* in_error and out_error both that fault and in_object absent.
C1_FaultCaptured ==
    (last = "generate_contexts" /\ hist.genfail \in Faults) =>
        /\ pc = "in_object"
        /\ raised = None
        /\ Len(retval) = 1
        /\ retval[1] = ctx
        /\ ctx.in_error = hist.genfail
        /\ ctx.out_error = hist.genfail
        /\ ctx.in_object = None

\* generate_method_contexts, the third sub-stage, has raised a Fault.
C1_Witness ==
    /\ last = "generate_contexts"
    /\ hist.genfail \in Faults
    /\ ctx.in_body_doc # None
    /\ ctx.in_error = hist.genfail

\* C2: whenever get_out_string has finished running (early return, finite
\* serializer result, stream driven to normal completion, stream cancelled),
\* ctx.out_string is non-absent.
C2_OutStringSet ==
    (pc = "written" /\ hist.gos \in {"returned", "completed", "cancelled"}) =>
        ctx.out_string # None

\* C3: after generate_contexts and get_in_object, exactly one of in_object
\* present and in_error present holds.
C3_ExactlyOne ==
    (last = "get_in_object" /\ pc = "out_object") =>
        ((ctx.in_object # None) # (ctx.in_error # None))

\* C4: get_out_object with in_error set raises exactly that fault, dispatches
\* nothing and leaves out_object unchanged; with in_error unset it dispatches
\* exactly once.  No context whose input failed is ever dispatched.
C4_NoDispatchOnInputError ==
    /\ last = "get_out_object" =>
         IF ctx.in_error # None
         THEN raised = ctx.in_error /\ hist.dispatched = 0 /\ ctx.out_object = None
         ELSE raised = None /\ hist.dispatched = 1
    /\ hist.dispatched > 0 => ctx.in_error = None
    /\ hist.dispatched <= 1

\* get_out_object has re-raised the fault of a failed input stage.
C4_Witness ==
    /\ last = "get_out_object"
    /\ ctx.in_error \in Faults
    /\ raised = ctx.in_error
    /\ hist.dispatched = 0

\* The stream was cancelled and the producer answered the Break by ending.
CancelledByStop == last = "throw" /\ prod.state = "cancelled"

\* C5 (as stated): on cancellation get_out_string injects Break into the
\* producer exactly once, takes the producer's termination as success (no
\* error leaves get_out_string) and goes on to fire the document-level event,
\* call create_out_string and fire the string-level event.
C5_CancelFiresEvents ==
    CancelledByStop => (prod.breaks = 1 /\ raised = None /\ FullTail)

\* C5 (amended): ... and goes on to call create_out_string, with the
\* document-level event before it and the string-level event after it when
\* the context has a service class, and with no event when it has none.
C5_CancelIsSuccess ==
    CancelledByStop =>
        /\ prod.breaks = 1
        /\ raised = None
        /\ pc = "written"
        /\ IF ctx.service_class # None THEN FullTail
                                       ELSE LogNames = <<"create_out_string">>

\* A cancelled stream of a context with a service class.
C5_Witness ==
    /\ CancelledByStop
    /\ prod.breaks = 1
    /\ ctx.service_class # None
    /\ FullTail

\* C6: get_out_string forwards every supplied value to the producer, in
\* order, one per resumption; and once the producer has signalled normal
\* completion it performs the remaining steps (document-level event,
\* create_out_string, string-level event) instead of ending or failing there.
C6_DrivenToCompletion ==
    /\ prod.state # "none" => prod.recv = hist.supplied
    /\ (pc = "written" /\ hist.gos = "completed") =>
          /\ raised = None
          /\ \E i \in 1..Len(log) : LogNames[i] = "create_out_string"

\* C7: in a run of get_out_string that fires lifecycle events, the
\* document-level event comes before create_out_string and the string-level
\* event after it; each phase fires exactly one of its return and exception
\* events, the exception event exactly when out_error is set at that moment.
C7_EventOrder ==
    (\E i \in 1..Len(log) : LogNames[i] \in DocumentEvents \cup StringEvents) =>
        /\ FullTail
        /\ (LogNames[1] = "method_exception_document") <=> (log[1].err # None)
        /\ (LogNames[1] = "method_return_document") <=> (log[1].err = None)
        /\ (LogNames[3] = "method_exception_string") <=> (log[3].err # None)
        /\ (LogNames[3] = "method_return_string") <=> (log[3].err = None)

\* A run that fired the two exception events around create_out_string.
C7_Witness ==
    /\ FullTail
    /\ LogNames[1] = "method_exception_document"
    /\ LogNames[3] = "method_exception_string"
    /\ ctx.out_error \in Faults

-----------------------------------------------------------------------------
(* The file scenario's properties *)

RECURSIVE ChunkOffset(_, _)
\* The number of bytes in the chunks before chunk i.
ChunkOffset(data, i) ==
    IF i <= 1 THEN 0 ELSE ChunkOffset(data, i - 1) + Len(data[i - 1])

\* `content` is the chunks of `data` one after the other, in their order.
IsConcatenation(content, data) ==
    /\ Len(content) = ChunkOffset(data, Len(data) + 1)
    /\ \A i \in 1..Len(data) : \A j \in 1..Len(data[i]) :
          content[ChunkOffset(data, i) + j] = data[i][j]

\* `name` is the last component of `path`.
IsLastComponent(name, path) ==
    /\ Len(name) > 0
    /\ Len(name) < Len(path)
    /\ \A i \in 1..Len(name) : name[i] # "/"
    /\ path[Len(path) - Len(name)] = "/"
    /\ SubSeq(path, Len(path) - Len(name) + 1, Len(path)) = name

\* A step that is the first rollover() of a value constructed with only data.
RolloverOfDataOnly ==
    /\ fhist.onlydata
    /\ fhist.rollovers = 0
    /\ fhist'.rollovers = 1

C9_Base64RoundTrip ==
    (reader.kind = "to_base64" /\ reader.state = "exhausted" /\ fhist.rollovers > 0) =>
        /\ \A i \in 1..(Len(out) - 1) : \A j \in 1..Len(out[i]) : out[i][j] # B64Pad
        /\ b64decode(Flatten(out)) = [ok |-> TRUE, bytes |-> fs[value.path[1]]]

\* C10: a file handle a streaming reader opened is closed once the consumer
\* has stopped, whether it read the stream to its end or abandoned it.
C10_HandleReleased ==
    (reader.owns /\ reader.state \in {"exhausted", "abandoned"}) =>
        ~handles[reader.h].open

\* The handle the value was constructed with, as it was handed over: open, and
\* positioned at the end of the user's file.
HandleUntouched ==
    handles[value.handle] = [path |-> UserPath, pos |-> Len(UserContent), open |-> TRUE]

\* C15: file_to_string_iterable uses a value's handle only when its path is
\* absent: with data unset and both path and handle set, the reader reads a
\* file it opened from path and the handle is neither seeked, read nor closed;
\* with data set the chunks of data are returned; with none of data, path and
\* handle set the call fails as a usage error.
C15_HandleOnlyWithoutPath ==
    /\ (reader.kind = "file_to_iter" /\ value.path # Absent /\ value.handle # NoHandle) =>
          /\ reader.owns
          /\ reader.h # value.handle
          /\ HandleUntouched
    /\ (reader.kind \in {"iter", "file_to_iter"} /\ value.data # Absent) =>
          /\ reader.kind = "iter"
          /\ reader.state = "exhausted" => out = value.data[1]
    /\ (fhist.last = "file_to_string_iterable" /\ value.data = Absent
           /\ value.path = Absent /\ value.handle = NoHandle) =>
          /\ fhist.raised = "AssertionError"
          /\ reader.kind = "none"

-----------------------------------------------------------------------------
(* The codecs' properties *)

BinaryDecoders == {"byte_array_from_string", "file_from_string"}
NumberParsers == {"integer_from_string", "decimal_from_string", "double_from_string"}

\* The call failed with a ValidationError whose first argument is the input.
RejectedAsInvalid ==
    /\ result.kind = "raise"
    /\ result.exc = "ValidationError"
    /\ Len(result.args) >= 1
    /\ result.args[1] = call.arg

\* C11: a binary decoder (hex, base64 or URL-safe base64, reached through
\* byte_array_from_string or file_from_string) that fails on its input fails
\* with a ValidationError carrying that input; no other error escapes it.
C11_DecodeErrorIsValidation ==
    (call.fn \in BinaryDecoders /\ result.kind = "raise") => RejectedAsInvalid

\* C12: integer, decimal and double from_string with a declared max_str_len
\* reject every longer input with a ValidationError carrying the input,
\* whether or not the input would parse.
C12_TooLongRejected ==
    (call.fn \in NumberParsers /\ result.kind # None /\ TooLong(call.cls, call.arg)) =>
        RejectedAsInvalid

\* C13: duration_from_string(duration_to_string(v)) = v for every time span v
\* of days, seconds and microseconds, positive, zero or negative.
C13_DurationRoundTrip ==
    (call.fn = "duration_from_string" /\ call.opt # Absent) =>
        /\ result.kind = "return"
        /\ result.val = call.opt[1]

\* The magnitude of a time span.
Magnitude(v) == IF v.days < 0 THEN Negated(v) ELSE v

\* The segment of a component of the grammar: nothing for zero.
Segment(n, designator) ==
    IF n # 0 THEN IntToString(n) \o <<designator>> ELSE <<>>

\* n[.f]S
IsSecondsSegment(t) ==
    LET n == SubSeq(t, 1, Len(t) - 1)
    IN /\ Len(t) >= 2
       /\ t[Len(t)] = "S"
       /\ IsPointLiteral(n)
       /\ IsDigit(n[1])
       /\ IsDigit(n[Len(n)])

\* C14: duration_to_string returns a string of the grammar
\* [-]P[nD][T[nH][nM][n[.f]S]]: "-" exactly for a negative span, a D segment
\* exactly when the magnitude has days, nothing more when the magnitude is a
\* non-zero whole number of days, otherwise "T" with H and M segments exactly
\* when they are not zero and at least one of H, M and S ("0S" for zero); never
\* "P" alone and never a trailing "T".  1 day is "P1D", 1h30m is "PT1H30M",
\* zero is "PT0S".
C14_DurationGrammar ==
    (call.fn = "duration_to_string" /\ result.kind = "return") =>
        LET v == call.arg
            m == Magnitude(v)
            s == result.val
            hours == m.seconds \div 3600
            minutes == (m.seconds % 3600) \div 60
            date == (IF v.days < 0 THEN <<"-">> ELSE <<>>) \o <<"P">>
                      \o Segment(m.days, "D")
            time == date \o <<"T">> \o Segment(hours, "H") \o Segment(minutes, "M")
            rest == SubSeq(s, Len(time) + 1, Len(s))
        IN /\ s \notin {<<"P">>, <<"-", "P">>}
           /\ s[Len(s)] # "T"
           /\ IF m.days # 0 /\ m.seconds = 0 /\ m.microseconds = 0
              THEN s = date
              ELSE /\ Len(s) >= Len(time)
                   /\ SubSeq(s, 1, Len(time)) = time
                   /\ rest = <<>> => (hours # 0 \/ minutes # 0)
                   /\ rest # <<>> => IsSecondsSegment(rest)
                   /\ m = timedelta(0, 0, 0) => rest = <<"0", "S">>
           /\ v = timedelta(1, 0, 0) => s = <<"P", "1", "D">>
           /\ v = timedelta(0, 5400, 0) => s = <<"P", "T", "1", "H", "3", "0", "M">>
           /\ v = timedelta(0, 0, 0) => s = <<"P", "T", "0", "S">>

\* A negative span of days, hours, minutes and a fraction of a second, encoded.
C14_Witness ==
    /\ call.fn = "duration_to_string"
    /\ result.kind = "return"
    /\ call.arg.days < 0
    /\ Magnitude(call.arg).days # 0
    /\ Magnitude(call.arg).seconds = 5400
    /\ \E i \in 1..Len(result.val) : result.val[i] = "T"
    /\ \E i \in 1..Len(result.val) : result.val[i] = "."

\* C16: duration_from_string of a string the duration grammar does not match
\* fails with a ValidationError carrying the string, and raises no other error.
C16_MalformedDurationRejected ==
    (call.fn = "duration_from_string" /\ result.kind # None) =>
        /\ ~duration_re_match(call.arg).matched => RejectedAsInvalid
        /\ result.kind = "raise" => RejectedAsInvalid

=============================================================================
